---- MODULE Spec2Model ----
(***************************************************************************)
(* The code point run generator of peejay (src/cprun/parse.py, with        *)
(* src/cprun/unicode_data.py and the older src/parse.py).                  *)
(*                                                                         *)
(* read_unicode_data decodes the general-category column of UnicodeData    *)
(* into the database db; patch_special_code_points rewrites the category   *)
(* of ten code points; code_run_array walks the code points in ascending   *)
(* order and compacts their grammar rules into OutputRow records.          *)
(*                                                                         *)
(* Python's assert statements are modelled as executed (the scripts are    *)
(* run by "#!/usr/bin/python3", without -O): a failing assert ends the     *)
(* call with AssertionError.  A subscript of a missing dictionary key      *)
(* ends the call with KeyError.                                            *)
(*                                                                         *)
(* all_code_points yields 0..MAX_CODE_POINT (0x10FFFF).  The pass of the   *)
(* model is cut to the code points 0..last, where last is fixed with the   *)
(* input; code points after last are never visited.                        *)
(***************************************************************************)
EXTENDS Integers, Sequences, FiniteSets, TLC

VARIABLES
    rows,        \* UnicodeData.txt: code point -> general category abbreviation
    db,          \* DbDict: code point -> [Name, General_Category]
    last,        \* the last code point all_code_points yields in this run
    pc,          \* "start", "loop", "done", "emitted", "failed",
                 \* "patch_failed"
    error,       \* "none", "AssertionError", "KeyError"
    patched,     \* patch_special_code_points has returned
    code_point,  \* the loop variable of code_run_array
    mc,          \* the rule of the code point processed last
    state,       \* the CRAState object of code_run_array
    code_runs,   \* the output list of code_run_array
    call,        \* the number of calls of code_run_array begun so far
    entries,     \* __main__'s entries: the list the first call returned
    output,      \* what emit_header or emit_source has printed
    ret,         \* the method called on its own, and what it returned
    tests,       \* systemtests: the files of the test directory
    results,     \* systemtests: the lists run_tests has returned
    status       \* systemtests: the exit status of test.py, or "running"

vars == <<rows, db, last, pc, error, patched, code_point, mc, state, code_runs,
          call, entries, output, ret, tests, results, status>>

\* The variables the generator's pipeline leaves alone.
others == <<ret, tests, results, status>>

(***************************************************************************)
(* Bounds of the model.                                                    *)
(***************************************************************************)
\* Dense inputs give every code point of 0..MaxCP any abbreviation of
\* DenseAbbrs, or no row at all.
MaxCP == 4
\* Long inputs start their long run at a code point of 0..MaxLead.
MaxLead == 1
\* The length of the long run of scenario C.
LongRun == 600
\* The last code point of the pass over an input that holds the special
\* code points (0x25: one past U+0024).
PatchLast == 37
\* The last code point of the pass over an input of ZwjInputs (0x200E: one
\* past U+200D).
ZwjLast == 8206
\* The most files a test directory of the system test runner holds.
MaxFiles == 2

(***************************************************************************)
(* Program constants.                                                      *)
(***************************************************************************)
MAX_CODE_POINT == 1114111
CODE_POINT_BITS == 21
RUN_LENGTH_BITS == 9
MAX_RUN_LENGTH == 2 ^ RUN_LENGTH_BITS - 1
RULE_BITS == 2
MAX_RULE == 2 ^ RULE_BITS - 1

\* Python's None.
None == "None"
\* The marker of a raised KeyError.
KeyError == "KeyError"

Max(a, b) == IF a >= b THEN a ELSE b

\* a AND b on naturals, bit by bit.
RECURSIVE BitAnd(_, _)
BitAnd(a, b) ==
    IF a = 0 \/ b = 0 THEN 0
    ELSE (a % 2) * (b % 2) + 2 * BitAnd(a \div 2, b \div 2)

(***************************************************************************)
(* unicode_data.py                                                         *)
(***************************************************************************)
GeneralCategory ==
    { "Uppercase_Letter", "Lowercase_Letter", "Titlecase_Letter",
      "Modifier_Letter", "Other_Letter", "Nonspacing_Mark", "Spacing_Mark",
      "Enclosing_Mark", "Decimal_Number", "Letter_Number", "Other_Number",
      "Connector_Punctuation", "Dash_Punctuation", "Open_Punctuation",
      "Close_Punctuation", "Initial_Punctuation", "Final_Punctuation",
      "Other_Punctuation", "Math_Symbol", "Currency_Symbol",
      "Modifier_Symbol", "Other_Symbol", "Space_Separator", "Line_Separator",
      "Paragraph_Separator", "Control", "Format", "Surrogate", "Private_Use",
      "Unassigned" }

GENERAL_CATEGORY_ABBR_TO_ENUM ==
    [ Lu |-> "Uppercase_Letter",
      Ll |-> "Lowercase_Letter",
      Lt |-> "Titlecase_Letter",
      Lm |-> "Modifier_Letter",
      Lo |-> "Other_Number",
      Mn |-> "Nonspacing_Mark",
      Mc |-> "Spacing_Mark",
      Me |-> "Enclosing_Mark",
      Nd |-> "Decimal_Number",
      Nl |-> "Letter_Number",
      No |-> "Other_Number",
      Pc |-> "Connector_Punctuation",
      Pd |-> "Dash_Punctuation",
      Ps |-> "Open_Punctuation",
      Pe |-> "Close_Punctuation",
      Pi |-> "Initial_Punctuation",
      Pf |-> "Final_Punctuation",
      Po |-> "Other_Punctuation",
      Sm |-> "Math_Symbol",
      Sc |-> "Currency_Symbol",
      Sk |-> "Modifier_Symbol",
      So |-> "Other_Symbol",
      Zs |-> "Space_Separator",
      Zl |-> "Line_Separator",
      Zp |-> "Paragraph_Separator",
      Cc |-> "Control",
      Cf |-> "Format",
      Cs |-> "Surrogate",
      Co |-> "Private_Use",
      Cn |-> "Unassigned" ]

\* code_point_value: the fields of one row that the generator reads.  Name
\* (row[1]) is modelled by the row's code point.
code_point_value(cp, abbr) ==
    [ Name |-> cp, General_Category |-> GENERAL_CATEGORY_ABBR_TO_ENUM[abbr] ]

\* read_unicode_data: one dictionary entry for every row of the file.
read_unicode_data(r) == [ cp \in DOMAIN r |-> code_point_value(cp, r[cp]) ]

(***************************************************************************)
(* parse.py: the grammar rules and the category table                      *)
(***************************************************************************)
\* class GrammarRule(Enum): member name -> value.
GrammarRule ==
    [ whitespace |-> 0, identifier_start |-> 1, identifier_part |-> 2 ]

\* The table with Decimal_Number entered as identifier_start.
CATEGORY_TO_GRAMMAR_RULE_digit_start ==
    [ Spacing_Mark          |-> "identifier_part",
      Connector_Punctuation |-> "identifier_part",
      Decimal_Number        |-> "identifier_start",
      Letter_Number         |-> "identifier_start",
      Lowercase_Letter      |-> "identifier_start",
      Modifier_Letter       |-> "identifier_start",
      Nonspacing_Mark       |-> "identifier_part",
      Space_Separator       |-> "whitespace",
      Other_Letter          |-> "identifier_start",
      Titlecase_Letter      |-> "identifier_start",
      Uppercase_Letter      |-> "identifier_start" ]

CATEGORY_TO_GRAMMAR_RULE ==
    [ Spacing_Mark          |-> "identifier_part",
      Connector_Punctuation |-> "identifier_part",
      Decimal_Number        |-> "identifier_part",
      Letter_Number         |-> "identifier_start",
      Lowercase_Letter      |-> "identifier_start",
      Modifier_Letter       |-> "identifier_start",
      Nonspacing_Mark       |-> "identifier_part",
      Space_Separator       |-> "whitespace",
      Other_Letter          |-> "identifier_start",
      Titlecase_Letter      |-> "identifier_start",
      Uppercase_Letter      |-> "identifier_start" ]

\* d[key]: KeyError when the key is missing.
dict_subscript(d, key) == IF key \in DOMAIN d THEN d[key] ELSE KeyError

\* d.get(key): None when the key is missing.
dict_get(d, key) == IF key \in DOMAIN d THEN d[key] ELSE None

\* CATEGORY_TO_GRAMMAR_RULE.get(v['General_Category'])
rule_of_category(cat) == dict_get(CATEGORY_TO_GRAMMAR_RULE, cat)

\* Lines 222-225 of code_run_array: the rule of a code point of database d.
classify(d, cp) ==
    IF cp \notin DOMAIN d THEN None
    ELSE rule_of_category(d[cp].General_Category)

(***************************************************************************)
(* parse.py: OutputRow and CRAState                                        *)
(***************************************************************************)
\* OutputRow.__init__ without its assertion on the code point.
OutputRow_asserts_no_start(cp, length, category) ==
    /\ length < 2 ^ RUN_LENGTH_BITS
    /\ GrammarRule[category] < 2 ^ RULE_BITS

\* The three assertions of OutputRow.__init__.
OutputRow_asserts(cp, length, category) ==
    /\ cp < 2 ^ CODE_POINT_BITS
    /\ length < 2 ^ RUN_LENGTH_BITS
    /\ GrammarRule[category] < 2 ^ RULE_BITS

OutputRow(cp, length, category) ==
    [ code_point |-> cp, length |-> length, category |-> category ]

\* CRAState.__init__
CRAState == [ first |-> 0, length |-> 0, max_length |-> 0, cat |-> None ]

\* new_run counting a code point without a rule.
new_run_always_one(st, cp, m) ==
    [ st EXCEPT !.first = cp, !.cat = m, !.length = 1 ]

\* new_run starting the run one code point early.
new_run_previous(st, cp, m) ==
    [ st EXCEPT !.first = IF cp > 0 THEN cp - 1 ELSE cp,
                !.cat = m,
                !.length = IF m # None THEN 1 ELSE 0 ]

\* new_run that opens every run with length 0.
new_run_zero_length(st, cp, m) ==
    [ st EXCEPT !.first = cp, !.cat = m, !.length = 0 ]

\* new_run that leaves the start of the previous run in place.
new_run_keeps_first(st, cp, m) ==
    [ st EXCEPT !.cat = m, !.length = IF m # None THEN 1 ELSE 0 ]

new_run(st, cp, m) ==
    [ st EXCEPT !.first = cp,
                !.cat = m,
                !.length = IF m # None THEN 1 ELSE 0 ]

\* extend_run that does not compare the rule with the open run's rule.
extend_run_any_rule(st, m) ==
    IF st.cat # None /\ m # None
    THEN [ ok |-> TRUE,
           st |-> [ st EXCEPT !.length = @ + 1,
                              !.max_length = Max(@, st.length + 1) ] ]
    ELSE [ ok |-> FALSE, st |-> st ]

\* extend_run returning True without counting the code point.
extend_run_no_count(st, m) ==
    IF st.cat # None /\ m = st.cat
    THEN IF st.length > MAX_RUN_LENGTH THEN [ ok |-> FALSE, st |-> st ]
         ELSE [ ok |-> TRUE, st |-> st ]
    ELSE [ ok |-> FALSE, st |-> st ]

\* extend_run that never extends.
extend_run_never(st, m) == [ ok |-> FALSE, st |-> st ]

\* extend_run: ok is the returned boolean, st the object afterwards.
extend_run(st, m) ==
    IF st.cat # None /\ m = st.cat
    THEN IF st.length > MAX_RUN_LENGTH
         THEN [ ok |-> FALSE, st |-> st ]
         ELSE [ ok |-> TRUE,
                st |-> [ st EXCEPT !.length = @ + 1,
                                   !.max_length = Max(@, st.length + 1) ] ]
    ELSE [ ok |-> FALSE, st |-> st ]

\* end_run with its assertions, and those of OutputRow, left out.
end_run_no_asserts(st, result) ==
    IF st.length > 0 /\ st.cat # None
    THEN [ error |-> "none",
           result |-> Append(result, OutputRow(st.first, st.length, st.cat)) ]
    ELSE [ error |-> "none", result |-> result ]

\* end_run leaving the new record alone in the list.
end_run_overwrites(st, result) ==
    IF st.length > 0 /\ st.cat # None
    THEN IF st.length <= MAX_RUN_LENGTH
         THEN [ error |-> "none",
                result |-> << OutputRow(st.first, st.length, st.cat) >> ]
         ELSE [ error |-> "AssertionError", result |-> result ]
    ELSE [ error |-> "none", result |-> result ]

\* end_run putting the new record in front of the list.
end_run_prepends(st, result) ==
    IF st.length > 0 /\ st.cat # None
    THEN IF st.length <= MAX_RUN_LENGTH
         THEN [ error |-> "none",
                result |-> << OutputRow(st.first, st.length, st.cat) >>
                               \o result ]
         ELSE [ error |-> "AssertionError", result |-> result ]
    ELSE [ error |-> "none", result |-> result ]

\* end_run cutting an overlong run to MAX_RUN_LENGTH instead of asserting.
end_run_truncates(st, result) ==
    IF st.length > 0 /\ st.cat # None
    THEN [ error |-> "none",
           result |-> Append(result,
                             OutputRow(st.first,
                                       IF st.length <= MAX_RUN_LENGTH
                                       THEN st.length ELSE MAX_RUN_LENGTH,
                                       st.cat)) ]
    ELSE [ error |-> "none", result |-> result ]

\* end_run: error is "none" or the exception raised, result the list
\* afterwards.
end_run(st, result) ==
    IF st.length > 0 /\ st.cat # None
    THEN IF /\ st.first <= MAX_CODE_POINT
            /\ st.length <= MAX_RUN_LENGTH
            /\ GrammarRule[st.cat] <= MAX_RULE
            /\ OutputRow_asserts(st.first, st.length, st.cat)
         THEN [ error |-> "none",
                result |-> Append(result,
                                  OutputRow(st.first, st.length, st.cat)) ]
         ELSE [ error |-> "AssertionError", result |-> result ]
    ELSE [ error |-> "none", result |-> result ]

(***************************************************************************)
(* parse.py: all_code_points.  The pass of the model ends at the code      *)
(* point last where the source has MAX_CODE_POINT.                         *)
(***************************************************************************)
\* The loop test with < for <=.
all_code_points_more_exclusive(cp) == cp < last

\* "while code_point <= MAX_CODE_POINT": the generator yields cp.
all_code_points_more(cp) == cp <= last

\* "code_point = CodePoint(code_point + 1)"
all_code_points_next(cp) == cp + 1

(***************************************************************************)
(* parse.py: patch_special_code_points                                     *)
(***************************************************************************)
\* The override table without its entry for U+0024.
special_code_points_no_dollar ==
    << [ cp |-> 9, cat |-> "Space_Separator" ], \* U+0009
       [ cp |-> 11, cat |-> "Space_Separator" ], \* U+000B
       [ cp |-> 12, cat |-> "Space_Separator" ], \* U+000C
       [ cp |-> 32, cat |-> "Space_Separator" ], \* U+0020
       [ cp |-> 95, cat |-> "Other_Letter" ], \* U+005F
       [ cp |-> 160, cat |-> "Space_Separator" ], \* U+00A0
       [ cp |-> 8204, cat |-> "Spacing_Mark" ], \* U+200C
       [ cp |-> 8205, cat |-> "Spacing_Mark" ], \* U+200D
       [ cp |-> 65279, cat |-> "Space_Separator" ] >> \* U+FEFF

\* The override table without its entry for U+200D.
special_code_points_no_zwj ==
    << [ cp |-> 9, cat |-> "Space_Separator" ], \* U+0009
       [ cp |-> 11, cat |-> "Space_Separator" ], \* U+000B
       [ cp |-> 12, cat |-> "Space_Separator" ], \* U+000C
       [ cp |-> 32, cat |-> "Space_Separator" ], \* U+0020
       [ cp |-> 36, cat |-> "Other_Letter" ], \* U+0024
       [ cp |-> 95, cat |-> "Other_Letter" ], \* U+005F
       [ cp |-> 160, cat |-> "Space_Separator" ], \* U+00A0
       [ cp |-> 8204, cat |-> "Spacing_Mark" ], \* U+200C
       [ cp |-> 65279, cat |-> "Space_Separator" ] >> \* U+FEFF

\* The override table with an entry for U+000A.
special_code_points_with_lf ==
    << [ cp |-> 9, cat |-> "Space_Separator" ], \* U+0009
       [ cp |-> 10, cat |-> "Space_Separator" ], \* U+000A
       [ cp |-> 11, cat |-> "Space_Separator" ], \* U+000B
       [ cp |-> 12, cat |-> "Space_Separator" ], \* U+000C
       [ cp |-> 32, cat |-> "Space_Separator" ], \* U+0020
       [ cp |-> 36, cat |-> "Other_Letter" ], \* U+0024
       [ cp |-> 95, cat |-> "Other_Letter" ], \* U+005F
       [ cp |-> 160, cat |-> "Space_Separator" ], \* U+00A0
       [ cp |-> 8204, cat |-> "Spacing_Mark" ], \* U+200C
       [ cp |-> 8205, cat |-> "Spacing_Mark" ], \* U+200D
       [ cp |-> 65279, cat |-> "Space_Separator" ] >> \* U+FEFF

\* The override table with U+00A0 entered as Spacing_Mark.
special_code_points_nbsp_mark ==
    << [ cp |-> 9,     cat |-> "Space_Separator" ],
       [ cp |-> 11,    cat |-> "Space_Separator" ],
       [ cp |-> 12,    cat |-> "Space_Separator" ],
       [ cp |-> 32,    cat |-> "Space_Separator" ],
       [ cp |-> 36,    cat |-> "Other_Letter" ],
       [ cp |-> 95,    cat |-> "Other_Letter" ],
       [ cp |-> 160,   cat |-> "Spacing_Mark" ],
       [ cp |-> 8204,  cat |-> "Spacing_Mark" ],
       [ cp |-> 8205,  cat |-> "Spacing_Mark" ],
       [ cp |-> 65279, cat |-> "Space_Separator" ] >>

\* The dictionary special_code_points, in insertion order.
special_code_points ==
    << [ cp |-> 9,     cat |-> "Space_Separator" ],   \* U+0009
       [ cp |-> 11,    cat |-> "Space_Separator" ],   \* U+000B
       [ cp |-> 12,    cat |-> "Space_Separator" ],   \* U+000C
       [ cp |-> 32,    cat |-> "Space_Separator" ],   \* U+0020
       [ cp |-> 36,    cat |-> "Other_Letter" ],      \* U+0024
       [ cp |-> 95,    cat |-> "Other_Letter" ],      \* U+005F
       [ cp |-> 160,   cat |-> "Space_Separator" ],   \* U+00A0
       [ cp |-> 8204,  cat |-> "Spacing_Mark" ],      \* U+200C
       [ cp |-> 8205,  cat |-> "Spacing_Mark" ],      \* U+200D
       [ cp |-> 65279, cat |-> "Space_Separator" ] >> \* U+FEFF

\* The assertions without the one for Spacing_Mark.
patch_checks_two ==
    { << "Space_Separator", "whitespace" >>,
      << "Other_Letter", "identifier_start" >> }

\* The category and the rule of each of the three assertions that open
\* patch_special_code_points.
patch_checks ==
    { << "Space_Separator", "whitespace" >>,
      << "Other_Letter", "identifier_start" >>,
      << "Spacing_Mark", "identifier_part" >> }

\* "assert CATEGORY_TO_GRAMMAR_RULE[category] == rule", for each of them.
patch_asserts ==
    \A p \in patch_checks :
        dict_subscript(CATEGORY_TO_GRAMMAR_RULE, p[1]) = p[2]

\* The loop rewriting nothing unless the database has every code point of
\* the table.
RECURSIVE patch_loop_checks_first(_, _)
patch_loop_checks_first(d, i) ==
    IF \E k \in DOMAIN special_code_points :
           special_code_points[k].cp \notin DOMAIN d
    THEN [ error |-> "KeyError", db |-> d ]
    ELSE IF i > Len(special_code_points) THEN [ error |-> "none", db |-> d ]
    ELSE LET e == special_code_points[i] IN
         patch_loop_checks_first(
             [ d EXCEPT ![e.cp].General_Category = e.cat ], i + 1)

\* The loop rewriting the name along with the category.
RECURSIVE patch_loop_renames(_, _)
patch_loop_renames(d, i) ==
    IF i > Len(special_code_points) THEN [ error |-> "none", db |-> d ]
    ELSE LET e == special_code_points[i] IN
         IF e.cp \notin DOMAIN d THEN [ error |-> "KeyError", db |-> d ]
         ELSE patch_loop_renames(
                  [ d EXCEPT ![e.cp] = [ Name |-> -1,
                                         General_Category |-> e.cat ] ],
                  i + 1)

\* The loop skipping the code points the database lacks.
RECURSIVE patch_loop_skips(_, _)
patch_loop_skips(d, i) ==
    IF i > Len(special_code_points) THEN [ error |-> "none", db |-> d ]
    ELSE LET e == special_code_points[i] IN
         IF e.cp \notin DOMAIN d THEN patch_loop_skips(d, i + 1)
         ELSE patch_loop_skips([ d EXCEPT ![e.cp].General_Category = e.cat ],
                               i + 1)

\* The loop "for cp, cat in special_code_points.items()" from entry i on:
\* db[cp]['General_Category'] = cat raises KeyError at the first code point
\* the database lacks, with the earlier entries already rewritten.
RECURSIVE patch_loop(_, _)
patch_loop(d, i) ==
    IF i > Len(special_code_points) THEN [ error |-> "none", db |-> d ]
    ELSE LET e == special_code_points[i] IN
         IF e.cp \notin DOMAIN d THEN [ error |-> "KeyError", db |-> d ]
         ELSE patch_loop([ d EXCEPT ![e.cp].General_Category = e.cat ], i + 1)

patch_special_code_points(d) ==
    IF ~patch_asserts THEN [ error |-> "AssertionError", db |-> d ]
    ELSE patch_loop(d, 1)

(***************************************************************************)
(* parse.py: emit_header and emit_source                                   *)
(***************************************************************************)
\* No method has been called on its own.
no_call == [ op |-> "none", value |-> FALSE ]

\* Nothing has been printed.
no_output == [ kind |-> "none", length |-> 0, rows |-> << >> ]

\* OutputRow.as_str: the fields of the printed row; db[code_point] raises
\* KeyError for a code point without an entry.
as_str(row, d) ==
    [ code_point |-> row.code_point,
      length |-> row.length,
      value |-> GrammarRule[row.category],
      Name |-> d[row.code_point].Name,
      name |-> row.category ]

\* emit_source: the declared array length and the rows printed, up to the
\* first row whose as_str raises.
emit_source(d, es) ==
    LET bad == { i \in DOMAIN es : es[i].code_point \notin DOMAIN d }
        n == IF bad = {} THEN Len(es)
             ELSE (CHOOSE i \in bad : \A j \in bad : i <= j) - 1
    IN  [ error |-> IF bad = {} THEN "none" ELSE "KeyError",
          output |-> [ kind |-> "cpp",
                       length |-> Len(es),
                       rows |-> [ i \in 1 .. n |-> as_str(es[i], d) ] ] ]

\* emit_header declaring one element more than the list has.
emit_header_one_more(es) ==
    [ kind |-> "hpp", length |-> Len(es) + 1, rows |-> << >> ]

\* emit_header, after its own call of code_run_array: the declared array
\* length.
emit_header(es) == [ kind |-> "hpp", length |-> Len(es), rows |-> << >> ]

(***************************************************************************)
(* src/parse.py, the older copy of the generator: its widths, OutputRow    *)
(* and CRAState.                                                           *)
(***************************************************************************)
parse_py_CODE_POINT_BITS == 20
parse_py_RUN_LENGTH_BITS == 9
parse_py_MAX_RUN_LENGTH == 2 ^ parse_py_RUN_LENGTH_BITS - 1
META_CATEGORY_BITS == 3
MAX_META_CATEGORY == 2 ^ META_CATEGORY_BITS - 1

MetaCategory ==
    [ letter |-> 0, combining_mark |-> 1, digit |-> 2,
      connector_punctuation |-> 3, space |-> 4 ]

\* The three assertions of OutputRow.__init__ of src/parse.py.
parse_py_OutputRow_asserts(cp, length, category) ==
    /\ cp < 2 ^ parse_py_CODE_POINT_BITS
    /\ length < 2 ^ parse_py_RUN_LENGTH_BITS
    /\ MetaCategory[category] < 2 ^ META_CATEGORY_BITS

\* CRAState.extend_run of src/parse.py.
parse_py_extend_run(st, m) ==
    IF st.cat # None /\ m = st.cat
    THEN IF st.length > parse_py_MAX_RUN_LENGTH
         THEN [ ok |-> FALSE, st |-> st ]
         ELSE [ ok |-> TRUE,
                st |-> [ st EXCEPT !.length = @ + 1,
                                   !.max_length = Max(@, st.length + 1) ] ]
    ELSE [ ok |-> FALSE, st |-> st ]

\* CRAState.end_run of src/parse.py.
parse_py_end_run(st, result) ==
    IF st.length > 0 /\ st.cat # None
    THEN IF /\ st.first <= MAX_CODE_POINT
            /\ st.length <= parse_py_MAX_RUN_LENGTH
            /\ MetaCategory[st.cat] <= MAX_META_CATEGORY
            /\ parse_py_CODE_POINT_BITS + parse_py_RUN_LENGTH_BITS
                   + META_CATEGORY_BITS <= 32
            /\ parse_py_OutputRow_asserts(st.first, st.length, st.cat)
         THEN [ error |-> "none",
                result |-> Append(result,
                                  OutputRow(st.first, st.length, st.cat)) ]
         ELSE [ error |-> "AssertionError", result |-> result ]
    ELSE [ error |-> "none", result |-> result ]

(***************************************************************************)
(* The inputs: the general-category column of UnicodeData.txt, as a        *)
(* function from the code points that have a row to their abbreviation,    *)
(* and the last code point of the pass.                                    *)
(***************************************************************************)
DenseAbbrs == { "Lu", "Ll", "Mn", "Zs", "Cc" }

\* Every assignment of DenseAbbrs, or of no row, to the code points 0..MaxCP.
DenseInputs ==
    { [ rows |-> r, last |-> MaxCP ] :
        r \in UNION { [ S -> DenseAbbrs ] : S \in SUBSET (0 .. MaxCP) } }

\* One row, at code point 1, for every abbreviation of the file format.
AbbrInputs ==
    { [ rows |-> [ cp \in {1} |-> a ], last |-> MaxCP ] :
        a \in DOMAIN GENERAL_CATEGORY_ABBR_TO_ENUM }

\* lead code points (rows of abbreviation before, or no rows for "-"), then
\* n rows of abbreviation a, then one row of abbreviation after (or none).
LongRows(lead, before, a, n, after) ==
    [ cp \in (IF before = "-" THEN {} ELSE 0 .. lead - 1)
             \cup (lead .. lead + n - 1)
             \cup (IF after = "-" THEN {} ELSE { lead + n })
      |-> IF cp < lead THEN before
          ELSE IF cp < lead + n THEN a
          ELSE after ]

LongLengths == { MAX_RUN_LENGTH, MAX_RUN_LENGTH + 1, LongRun }

LongInputs ==
    { [ rows |-> LongRows(q[1], q[2], q[3], q[4], q[5]),
        last |-> q[1] + q[4] + 1 ] :
        q \in { p \in (0 .. MaxLead) \X { "-", "Cc", "Ll" } \X { "Lu", "Mn" }
                      \X LongLengths \X { "-", "Cc", "Ll", "Zs" } :
                  p[1] = 0 => p[2] = "-" } }

\* The code points of special_code_points, and LF and CR.
PatchCodePoints == { 9, 10, 11, 12, 13, 32, 36, 95, 160, 8204, 8205, 65279 }

\* The general categories UnicodeData.txt gives these code points.
NativeRows ==
    [ cp \in PatchCodePoints |->
        CASE cp \in { 9, 10, 11, 12, 13 } -> "Cc"
          [] cp \in { 32, 160 } -> "Zs"
          [] cp = 36 -> "Sc"
          [] cp = 95 -> "Pc"
          [] OTHER -> "Cf" ]

PatchBases ==
    { NativeRows, [ cp \in PatchCodePoints |-> "Cc" ],
      [ cp \in PatchCodePoints |-> "Lu" ] }

\* A base with the row of one code point changed, or removed.
PatchInputs ==
    { [ rows |-> [ cp \in PatchCodePoints \ { x } |-> b[cp] ],
        last |-> PatchLast ] :
        b \in PatchBases, x \in PatchCodePoints }
    \cup
    { [ rows |-> [ b EXCEPT ![x] = a ], last |-> PatchLast ] :
        b \in PatchBases, x \in PatchCodePoints, a \in DenseAbbrs }

\* A base with rows for U+0023 and U+0025, the neighbours of U+0024, too.
NeighbourInputs ==
    { [ rows |-> [ cp \in PatchCodePoints \cup { 35, 37 } |->
                     IF cp = 35 THEN q[2] ELSE IF cp = 37 THEN q[3]
                     ELSE q[1][cp] ],
        last |-> PatchLast ] :
        q \in PatchBases \X (DenseAbbrs \cup { "Po" })
                         \X (DenseAbbrs \cup { "Po" }) }

\* A base, alone or with rows for U+200B and U+200E, the neighbours of
\* U+200C and U+200D, and a pass that goes by them.
ZwjInputs ==
    { [ rows |-> b, last |-> ZwjLast ] : b \in PatchBases }
    \cup
    { [ rows |-> [ cp \in PatchCodePoints \cup { 8203, 8206 } |->
                     IF cp \in { 8203, 8206 } THEN a ELSE b[cp] ],
        last |-> ZwjLast ] :
        b \in PatchBases, a \in { "Cf", "Mn" } }

\* The rows of LongInputs with the run at the very end of the pass.
EndInputs ==
    { [ rows |-> LongRows(q[1], q[2], q[3], q[4], "-"),
        last |-> q[1] + q[4] - 1 ] :
        q \in { p \in (0 .. MaxLead) \X { "-", "Cc", "Ll" } \X { "Lu", "Mn" }
                      \X LongLengths :
                  p[1] = 0 => p[2] = "-" } }

Inputs ==
    DenseInputs \cup AbbrInputs \cup LongInputs \cup PatchInputs
    \cup NeighbourInputs \cup ZwjInputs \cup EndInputs

(***************************************************************************)
(* The state machine                                                       *)
(***************************************************************************)
Init ==
    /\ \E i \in Inputs : rows = i.rows /\ last = i.last
    /\ db = read_unicode_data(rows)
    /\ pc = "start"
    /\ error = "none"
    /\ patched = FALSE
    /\ code_point = 0
    /\ mc = None
    /\ state = CRAState
    /\ code_runs = << >>
    /\ call = 0
    /\ entries = << >>
    /\ output = no_output
    /\ ret = no_call
    /\ tests = << >>
    /\ results = << >>
    /\ status = "running"

\* db = patch_special_code_points(db): the dictionary is rewritten in place,
\* also when the call ends in an exception part-way.  The pipeline may be run
\* again on the database it has patched.
Patch ==
    /\ <<pc, call, patched>>
           \in { <<"start", 0, FALSE>>, <<"start", 0, TRUE>>,
                 <<"done", 1, TRUE>> }
    /\ LET r == patch_special_code_points(db) IN
        /\ db' = r.db
        /\ error' = r.error
        /\ pc' = IF r.error = "none" THEN pc ELSE "patch_failed"
        /\ patched' = (patched \/ r.error = "none")
    /\ UNCHANGED others
    /\ UNCHANGED <<rows, last, code_point, mc, state, code_runs, call,
                   entries, output>>

\* code_run_array applying the overrides itself.
Begin_patches ==
    /\ <<pc, call>> \in { <<"start", 0>>, <<"done", 1>> }
    /\ pc' = "loop"
    /\ call' = call + 1
    /\ state' = CRAState
    /\ code_runs' = << >>
    /\ code_point' = 0
    /\ mc' = None
    /\ db' = patch_special_code_points(db).db
    /\ UNCHANGED others
    /\ UNCHANGED <<rows, last, error, patched, entries, output>>

\* code_run_array with a CRAState that outlives the call.
Begin_keeps_state ==
    /\ <<pc, call>> \in { <<"start", 0>>, <<"done", 1>> }
    /\ pc' = "loop"
    /\ call' = call + 1
    /\ code_runs' = << >>
    /\ code_point' = 0
    /\ mc' = None
    /\ UNCHANGED others
    /\ UNCHANGED <<rows, db, last, error, patched, entries, output, state>>

\* code_run_array(db) up to its loop: state = CRAState(), code_runs = list(),
\* and all_code_points() starts at code point 0.  __main__ calls it, and
\* emit_header calls it again.
Begin ==
    /\ <<pc, call>> \in { <<"start", 0>>, <<"done", 1>> }
    /\ pc' = "loop"
    /\ call' = call + 1
    /\ state' = CRAState
    /\ code_runs' = << >>
    /\ code_point' = 0
    /\ mc' = None
    /\ UNCHANGED others
    /\ UNCHANGED <<rows, db, last, error, patched, entries, output>>

\* One iteration of the loop of code_run_array, for the code point
\* all_code_points yields next: the lookup of the rule, extend_run, and when
\* the run is not extended end_run and new_run.  An exception raised by the
\* lookup or by an assertion of end_run ends the call.
Step ==
    /\ pc = "loop"
    /\ all_code_points_more(code_point)
    /\ LET m == classify(db, code_point)
           ext == IF code_point \in DOMAIN db /\ m # KeyError
                  THEN extend_run(state, m)
                  ELSE [ ok |-> FALSE, st |-> state ]
           er == end_run(ext.st, code_runs)
       IN  IF m = KeyError
           THEN /\ pc' = "failed"
                /\ error' = "KeyError"
                /\ UNCHANGED <<mc, state, code_runs, code_point>>
           ELSE IF ext.ok
           THEN /\ state' = ext.st
                /\ mc' = m
                /\ code_point' = all_code_points_next(code_point)
                /\ UNCHANGED <<pc, error, code_runs>>
           ELSE IF er.error # "none"
           THEN /\ pc' = "failed"
                /\ error' = er.error
                /\ mc' = m
                /\ state' = ext.st
                /\ UNCHANGED <<code_runs, code_point>>
           ELSE /\ code_runs' = er.result
                /\ state' = new_run(ext.st, code_point, m)
                /\ mc' = m
                /\ code_point' = all_code_points_next(code_point)
                /\ UNCHANGED <<pc, error>>
    /\ UNCHANGED others
    /\ UNCHANGED <<rows, db, last, patched, call, entries, output>>

\* all_code_points is exhausted: the end_run after the loop, and the return;
\* __main__ keeps the list in entries.
Finish ==
    /\ pc = "loop"
    /\ ~all_code_points_more(code_point)
    /\ LET er == end_run(state, code_runs) IN
        /\ code_runs' = er.result
        /\ error' = er.error
        /\ pc' = IF er.error = "none" THEN "done" ELSE "failed"
        /\ entries' = IF er.error = "none" /\ call = 1 THEN er.result
                      ELSE entries
    /\ UNCHANGED others
    /\ UNCHANGED <<rows, db, last, patched, code_point, mc, state, call,
                   output>>

\* emit_source also after a failed call, with the list as the call left it.
EmitSource_any ==
    /\ pc \in { "done", "failed" }
    /\ call = 1
    /\ LET r == emit_source(db, IF pc = "done" THEN entries ELSE code_runs)
       IN  /\ output' = r.output
           /\ error' = IF pc = "done" THEN r.error ELSE error
           /\ pc' = IF r.error = "none" THEN "emitted" ELSE "failed"
    /\ UNCHANGED others
    /\ UNCHANGED <<rows, db, last, patched, code_point, mc, state, code_runs,
                   call, entries>>

\* emit_source(db, entries, header_file), with the list __main__ holds.
EmitSource ==
    /\ pc = "done"
    /\ call = 1
    /\ LET r == emit_source(db, entries) IN
        /\ output' = r.output
        /\ error' = r.error
        /\ pc' = IF r.error = "none" THEN "emitted" ELSE "failed"
    /\ UNCHANGED others
    /\ UNCHANGED <<rows, db, last, patched, code_point, mc, state, code_runs,
                   call, entries>>

\* emit_header(db, entries, include_guard) from the return of its own call
\* of code_run_array on.
EmitHeader ==
    /\ pc = "done"
    /\ call = 2
    /\ output' = emit_header(code_runs)
    /\ pc' = "emitted"
    /\ UNCHANGED others
    /\ UNCHANGED <<rows, db, last, error, patched, code_point, mc, state,
                   code_runs, call, entries>>

Next == Patch \/ Begin \/ Step \/ Finish \/ EmitSource \/ EmitHeader

Spec == Init /\ [][Next]_vars

\* The inputs whose pass ends at PatchLast.
FairInit == Init /\ last = PatchLast

\* The program runs on while it has a step to take.
FairSpec == FairInit /\ [][Next]_vars /\ WF_vars(Next)

(***************************************************************************)
(* The methods of OutputRow and CRAState, each called on its own with      *)
(* arguments drawn from the edges of the field widths.                     *)
(***************************************************************************)
UnitStarts ==
    { -1, 0, 65, 2 ^ 20 - 1, 2 ^ 20, 1114111, 1114112, 2 ^ 21 - 1, 2 ^ 21 }

UnitLengths == { -1, 0, 1, 2, 511, 512 }

UnitRules == DOMAIN GrammarRule

UnitMetaCategories == { "letter", "space" }

UnitInit ==
    /\ rows = << >>
    /\ db = << >>
    /\ last = 0
    /\ pc = "unit"
    /\ error = "none"
    /\ patched = FALSE
    /\ code_point \in UnitStarts
    /\ mc \in { None } \cup UnitRules \cup UnitMetaCategories
    /\ \E f \in UnitStarts, n \in UnitLengths,
          c \in { None } \cup UnitRules \cup UnitMetaCategories :
           state = [ first |-> f, length |-> n,
                     max_length |-> IF n >= 2 THEN n ELSE 0, cat |-> c ]
    /\ code_runs = << >>
    /\ call = 0
    /\ entries = << >>
    /\ output = no_output
    /\ ret = no_call
    /\ tests = << >>
    /\ results = << >>
    /\ status = "running"

\* What a call on its own leaves alone.
unit_frame ==
    <<rows, db, last, patched, code_point, mc, call, entries, output, tests,
      results, status>>

\* OutputRow(code_point, length, category) of cprun/parse.py.
CallOutputRow ==
    /\ pc = "unit"
    /\ mc \in UnitRules
    /\ LET ok == OutputRow_asserts(code_point, state.length, mc) IN
        /\ ret' = [ op |-> "OutputRow", value |-> ok ]
        /\ error' = IF ok THEN "none" ELSE "AssertionError"
    /\ pc' = "returned"
    /\ UNCHANGED <<state, code_runs>>
    /\ UNCHANGED unit_frame

\* OutputRow(code_point, length, category) of src/parse.py.
CallOutputRow_parse_py ==
    /\ pc = "unit"
    /\ mc \in UnitMetaCategories
    /\ LET ok == parse_py_OutputRow_asserts(code_point, state.length, mc) IN
        /\ ret' = [ op |-> "parse_py_OutputRow", value |-> ok ]
        /\ error' = IF ok THEN "none" ELSE "AssertionError"
    /\ pc' = "returned"
    /\ UNCHANGED <<state, code_runs>>
    /\ UNCHANGED unit_frame

\* state.new_run(code_point, mc)
CallNewRun ==
    /\ pc = "unit"
    /\ mc \in { None } \cup UnitRules
    /\ state.cat \in { None } \cup UnitRules
    /\ state' = new_run(state, code_point, mc)
    /\ ret' = [ op |-> "new_run", value |-> TRUE ]
    /\ pc' = "returned"
    /\ UNCHANGED <<error, code_runs>>
    /\ UNCHANGED unit_frame

\* state.extend_run(mc) of cprun/parse.py.
CallExtendRun ==
    /\ pc = "unit"
    /\ mc \in { None } \cup UnitRules
    /\ state.cat \in { None } \cup UnitRules
    /\ LET r == extend_run(state, mc) IN
        /\ state' = r.st
        /\ ret' = [ op |-> "extend_run", value |-> r.ok ]
    /\ pc' = "returned"
    /\ UNCHANGED <<error, code_runs>>
    /\ UNCHANGED unit_frame

\* state.extend_run(mc) of src/parse.py.
CallExtendRun_parse_py ==
    /\ pc = "unit"
    /\ mc \in { None } \cup UnitMetaCategories
    /\ state.cat \in { None } \cup UnitMetaCategories
    /\ LET r == parse_py_extend_run(state, mc) IN
        /\ state' = r.st
        /\ ret' = [ op |-> "parse_py_extend_run", value |-> r.ok ]
    /\ pc' = "returned"
    /\ UNCHANGED <<error, code_runs>>
    /\ UNCHANGED unit_frame

\* state.end_run(code_runs) of cprun/parse.py.
CallEndRun ==
    /\ pc = "unit"
    /\ state.cat \in { None } \cup UnitRules
    /\ LET er == end_run(state, code_runs) IN
        /\ code_runs' = er.result
        /\ error' = er.error
        /\ ret' = [ op |-> "end_run", value |-> er.error = "none" ]
    /\ pc' = "returned"
    /\ UNCHANGED state
    /\ UNCHANGED unit_frame

\* state.end_run(code_runs) of src/parse.py.
CallEndRun_parse_py ==
    /\ pc = "unit"
    /\ state.cat \in { None } \cup UnitMetaCategories
    /\ LET er == parse_py_end_run(state, code_runs) IN
        /\ code_runs' = er.result
        /\ error' = er.error
        /\ ret' = [ op |-> "parse_py_end_run", value |-> er.error = "none" ]
    /\ pc' = "returned"
    /\ UNCHANGED state
    /\ UNCHANGED unit_frame

UnitNext ==
    \/ CallOutputRow \/ CallOutputRow_parse_py
    \/ CallNewRun
    \/ CallExtendRun \/ CallExtendRun_parse_py
    \/ CallEndRun \/ CallEndRun_parse_py

UnitSpec == UnitInit /\ [][UnitNext]_vars

(***************************************************************************)
(* systemtests/test.py: the runner of the JSON5 test suite                 *)
(***************************************************************************)
EXIT_SUCCESS == 0
EXIT_FAILURE == 1

\* The exit status of the interpreter after an uncaught exception.
EXIT_UNCAUGHT == 1

TESTS ==
    << [ ext |-> ".json", exit_code |-> EXIT_SUCCESS ],
       [ ext |-> ".json5", exit_code |-> EXIT_SUCCESS ],
       [ ext |-> ".js", exit_code |-> EXIT_FAILURE ],
       [ ext |-> ".txt", exit_code |-> EXIT_FAILURE ] >>

\* hidden(name), for the file's own name or for a directory on its path
\* below the test directory.
hidden(f) == f.place # "plain"

\* enumerate_files without the test of hidden names.
enumerate_files_all(fs, ext) == SelectSeq(fs, LAMBDA f : f.ext = ext)

\* enumerate_files: the files of the walk that are not hidden, nor in a
\* hidden directory, and have the extension.
enumerate_files(fs, ext) ==
    SelectSeq(fs, LAMBDA f : ~hidden(f) /\ f.ext = ext)

\* run_tests: error is "none" or the exception subprocess.run raised on its
\* timeout, results the list of booleans otherwise.
run_tests(fs, ext, exit_code) ==
    LET ps == enumerate_files(fs, ext) IN
    IF \E i \in DOMAIN ps : ps[i].timeout
    THEN [ error |-> "TimeoutExpired", results |-> << >> ]
    ELSE [ error |-> "none",
           results |-> [ i \in DOMAIN ps |-> ps[i].returncode = exit_code ] ]

\* "[item for sublist in results for item in sublist]"
RECURSIVE flatten(_)
flatten(ls) == IF ls = << >> THEN << >> ELSE Head(ls) \o flatten(Tail(ls))

\* flat_results.count(x)
count(l, x) == Cardinality({ i \in DOMAIN l : l[i] = x })

\* The files of a test directory: extension, place ("plain", a hidden file,
\* or a file in a hidden directory), and what pj-check does with the file
\* (a run that times out has no return code: it is left at 0).
TestFiles ==
    { f \in [ ext : { ".json", ".json5", ".js", ".txt", ".md" },
              place : { "plain", "hidden_file", "hidden_dir" },
              returncode : { 0, 1, 2 },
              timeout : BOOLEAN ] :
        f.timeout => f.returncode = 0 }

TestDirs == UNION { [ 1 .. n -> TestFiles ] : n \in 0 .. MaxFiles }

RunnerInit ==
    /\ rows = << >>
    /\ db = << >>
    /\ last = 0
    /\ pc = "tests"
    /\ error = "none"
    /\ patched = FALSE
    /\ code_point = 0
    /\ mc = None
    /\ state = CRAState
    /\ code_runs = << >>
    /\ call = 0
    /\ entries = << >>
    /\ output = no_output
    /\ ret = no_call
    /\ tests \in TestDirs
    /\ results = << >>
    /\ status = "running"

\* What test.py leaves alone.
runner_frame ==
    <<rows, db, last, patched, code_point, mc, state, code_runs, call,
      entries, output, ret, tests>>

\* One element of the list comprehension over TESTS: a call of run_tests.
RunTests ==
    /\ pc = "tests"
    /\ Len(results) < Len(TESTS)
    /\ LET t == TESTS[Len(results) + 1]
           r == run_tests(tests, t.ext, t.exit_code)
       IN  IF r.error = "none"
           THEN /\ results' = Append(results, r.results)
                /\ UNCHANGED <<pc, error, status>>
           ELSE /\ error' = r.error
                /\ status' = EXIT_UNCAUGHT
                /\ pc' = "exited"
                /\ UNCHANGED results
    /\ UNCHANGED runner_frame

\* The results are flattened, the failures counted, and test.py exits.
Exit ==
    /\ pc = "tests"
    /\ Len(results) = Len(TESTS)
    /\ LET flat_results == flatten(results)
           failures == count(flat_results, FALSE)
       IN  status' = IF failures = 0 THEN EXIT_SUCCESS ELSE EXIT_FAILURE
    /\ pc' = "exited"
    /\ UNCHANGED <<error, results>>
    /\ UNCHANGED runner_frame

RunnerNext == RunTests \/ Exit

RunnerSpec == RunnerInit /\ [][RunnerNext]_vars

(***************************************************************************)
(* Vocabulary of the properties                                            *)
(***************************************************************************)
\* The records of the output list.
Records == { code_runs[i] : i \in DOMAIN code_runs }

\* Record r covers code point cp.
Covers(r, cp) == r.code_point <= cp /\ cp < r.code_point + r.length

\* The classifier's verdict for cp; no verdict outside the pass.
Verdict(cp) == IF cp \in 0 .. last THEN classify(db, cp) ELSE None

\* The code points at which a maximal run of one rule starts.
RunStarts ==
    { a \in 0 .. last : Verdict(a) # None /\ Verdict(a - 1) # Verdict(a) }

\* The last code point of the maximal run that starts at a.
RunEnd(a) ==
    CHOOSE b \in a .. last :
        /\ Verdict(b + 1) # Verdict(a)
        /\ \A c \in a .. b : Verdict(c) = Verdict(a)

Min(a, b) == IF a <= b THEN a ELSE b

\* The pass has processed the code point after b, or has returned.
Passed(b) ==
    \/ pc = "done"
    \/ pc \in { "loop", "failed" } /\ code_point > b + 1

(***************************************************************************)
(* C1  Classification fidelity: once code_run_array has returned, every    *)
(* record that covers a code point has the rule the classifier gives that  *)
(* code point, and a code point no record covers has no rule.              *)
(***************************************************************************)
ClassificationFidelity ==
    pc = "done" =>
        \A cp \in 0 .. last :
            /\ \A r \in Records : Covers(r, cp) => r.category = classify(db, cp)
            /\ (\A r \in Records : ~Covers(r, cp)) => classify(db, cp) = None

\* A returned pass with several records, a run of two rules side by side and
\* a code point without a rule.
FidelityWitness ==
    /\ pc = "done"
    /\ Len(code_runs) >= 2
    /\ \E r \in Records : r.length >= 2
    /\ \E cp \in 0 .. last : \A r \in Records : ~Covers(r, cp)

(***************************************************************************)
(* C2  Long-run splitting: a maximal run of n > 511 code points of rule R  *)
(* is emitted as consecutive records of rule R, each starting where the    *)
(* previous one ended, all of length 511 but the last, the lengths summing *)
(* to n.                                                                   *)
(***************************************************************************)
LongRunSplitting ==
    pc \in { "done", "failed" } /\ error # "KeyError" =>
        \A a \in RunStarts :
            LET n == RunEnd(a) - a + 1 IN
            n > 511 =>
                \E i \in DOMAIN code_runs :
                    \A k \in 0 .. ((n - 1) \div 511) :
                        /\ i + k \in DOMAIN code_runs
                        /\ code_runs[i + k] =
                               OutputRow(a + 511 * k, Min(511, n - 511 * k),
                                         Verdict(a))

(***************************************************************************)
(* C3  Partition property: the intervals of the records of the output list *)
(* are pairwise disjoint.                                                  *)
(***************************************************************************)
PartitionProperty ==
    \A i, j \in DOMAIN code_runs :
        i < j =>
            \/ code_runs[i].code_point + code_runs[i].length
                   <= code_runs[j].code_point
            \/ code_runs[j].code_point + code_runs[j].length
                   <= code_runs[i].code_point

\* A returned pass with two records whose intervals touch.
PartitionWitness ==
    /\ pc = "done"
    /\ \E i \in DOMAIN code_runs :
        /\ i + 1 \in DOMAIN code_runs
        /\ code_runs[i + 1].code_point
               = code_runs[i].code_point + code_runs[i].length

(***************************************************************************)
(* C4  Bit-width conformance: every record ever appended has               *)
(* 0 <= start <= 0x10FFFF, 1 <= length <= 511 and one of the three rules.  *)
(***************************************************************************)
BitWidthConformance ==
    \A r \in Records :
        /\ 0 <= r.code_point /\ r.code_point <= 1114111
        /\ 1 <= r.length /\ r.length <= 511
        /\ r.category \in { "whitespace", "identifier_start", "identifier_part" }

\* A record of the greatest length has been appended.
BitWidthWitness == \E r \in Records : r.length = 511

(***************************************************************************)
(* C5  Subset-bit invariant: the value of identifier_part holds every bit  *)
(* of the value of identifier_start, and differs from it, so every record  *)
(* of rule identifier_start passes the identifier_part mask.               *)
(***************************************************************************)
SubsetBitInvariant ==
    \A r \in Records :
        r.category = "identifier_start" =>
            /\ BitAnd(GrammarRule[r.category], GrammarRule["identifier_part"])
                   = GrammarRule[r.category]
            /\ GrammarRule[r.category] # GrammarRule["identifier_part"]

(***************************************************************************)
(* C6  Adjacency/maximality: when two consecutive records have the same    *)
(* rule and the second starts where the first ends, the first has length   *)
(* 511.                                                                    *)
(***************************************************************************)
AdjacencyMaximality ==
    \A i \in DOMAIN code_runs :
        ( /\ i + 1 \in DOMAIN code_runs
          /\ code_runs[i + 1].category = code_runs[i].category
          /\ code_runs[i + 1].code_point
                 = code_runs[i].code_point + code_runs[i].length )
        => code_runs[i].length = 511

\* A returned pass with two consecutive records of one rule (a gap between
\* them) and two consecutive records that touch (of different rules).
AdjacencyWitness ==
    /\ pc = "done"
    /\ \E i \in DOMAIN code_runs :
        /\ i + 1 \in DOMAIN code_runs
        /\ code_runs[i + 1].category = code_runs[i].category
    /\ \E i \in DOMAIN code_runs :
        /\ i + 1 \in DOMAIN code_runs
        /\ code_runs[i + 1].code_point
               = code_runs[i].code_point + code_runs[i].length
        /\ code_runs[i].length >= 2

(***************************************************************************)
(* C7  Whitespace overrides, as stated: once the overrides are applied,    *)
(* each of U+0009, U+000A, U+000B, U+000C, U+000D, U+0020, U+00A0 and      *)
(* U+FEFF that the database holds classifies as whitespace.                *)
(***************************************************************************)
WhitespaceOverridesWithLineEnds ==
    patched =>
        \A cp \in { 9, 10, 11, 12, 13, 32, 160, 65279 } :
            cp \in DOMAIN db => classify(db, cp) = "whitespace"

(***************************************************************************)
(* C7, amended: once the overrides are applied, each of U+0009, U+000B,    *)
(* U+000C, U+0020, U+00A0 and U+FEFF classifies as whitespace, whatever    *)
(* general category the database supplied for it.                          *)
(***************************************************************************)
WhitespaceOverrides ==
    patched =>
        \A cp \in { 9, 11, 12, 32, 160, 65279 } :
            classify(db, cp) = "whitespace"

\* The overrides are applied to a database that gave one of the six code
\* points a letter category and another a control category.
WhitespaceOverridesWitness ==
    /\ patched
    /\ \E cp \in { 9, 11, 12, 32, 160, 65279 } : rows[cp] = "Lu"
    /\ \E cp \in { 9, 11, 12, 32, 160, 65279 } : rows[cp] = "Cc"

(***************************************************************************)
(* C8  Category-to-rule table: Space_Separator gives whitespace; the five  *)
(* letter categories and Letter_Number give identifier_start;              *)
(* Nonspacing_Mark, Spacing_Mark, Decimal_Number and Connector_Punctuation *)
(* give identifier_part; every other category and every code point without *)
(* an entry gives no rule; the lookup never raises.                        *)
(***************************************************************************)
TableOfTheSpec(cat) ==
    CASE cat = "Space_Separator" -> "whitespace"
      [] cat \in { "Uppercase_Letter", "Lowercase_Letter", "Titlecase_Letter",
                   "Modifier_Letter", "Other_Letter", "Letter_Number" }
             -> "identifier_start"
      [] cat \in { "Nonspacing_Mark", "Spacing_Mark", "Decimal_Number",
                   "Connector_Punctuation" }
             -> "identifier_part"
      [] OTHER -> None

CategoryToRuleTable ==
    /\ pc = "loop" /\ code_point > 0 =>
           mc = IF code_point - 1 \in DOMAIN db
                THEN TableOfTheSpec(db[code_point - 1].General_Category)
                ELSE None
    /\ pc = "failed" => error # "KeyError"

\* The pass has just classified a code point of category Other_Letter.
CategoryToRuleWitness ==
    /\ pc = "loop"
    /\ code_point - 1 \in DOMAIN db
    /\ db[code_point - 1].General_Category = "Other_Letter"
    /\ mc = "identifier_start"

(***************************************************************************)
(* C9  A code point whose row of UnicodeData.txt has the abbreviation Lu,  *)
(* Ll, Lt, Lm, Lo or Nl is classified identifier_start, Mn, Mc, Nd or Pc   *)
(* identifier_part, and Zs whitespace (the code points of the override     *)
(* table apart).                                                           *)
(***************************************************************************)
AbbreviationRules ==
    ( /\ pc = "loop"
      /\ code_point - 1 \in DOMAIN rows
      /\ \A i \in DOMAIN special_code_points :
             special_code_points[i].cp # code_point - 1 )
    => LET a == rows[code_point - 1] IN
        /\ a \in { "Lu", "Ll", "Lt", "Lm", "Lo", "Nl" }
               => mc = "identifier_start"
        /\ a \in { "Mn", "Mc", "Nd", "Pc" } => mc = "identifier_part"
        /\ a = "Zs" => mc = "whitespace"

(***************************************************************************)
(* C10  Single record for a short maximal run: once the pass has gone by a *)
(* maximal run of n <= 511 code points of rule R that starts at a, the     *)
(* output list holds the record {a, n, R}, and no other record that        *)
(* covers a code point of the run.                                         *)
(***************************************************************************)
SingleRecordForShortRun ==
    pc \in { "done", "failed" } =>
        \A a \in RunStarts :
            LET b == RunEnd(a)
                over == { i \in DOMAIN code_runs :
                            \E cp \in a .. b : Covers(code_runs[i], cp) }
            IN  (b - a + 1 <= 511 /\ Passed(b)) =>
                    /\ Cardinality(over) = 1
                    /\ \A i \in over :
                           code_runs[i] = OutputRow(a, b - a + 1, Verdict(a))

\* A returned pass over a run of three code points of two letter categories
\* with a different verdict on both sides.
SingleRecordWitness ==
    /\ pc = "done"
    /\ \E a \in 1 .. last - 3 :
        /\ OutputRow(a, 3, "identifier_start") \in Records
        /\ Verdict(a - 1) = "identifier_part"
        /\ Verdict(a + 3) = "whitespace"
        /\ db[a].General_Category # db[a + 1].General_Category


(***************************************************************************)
(* C11.  Identifier-start overrides: once the override table is applied,   *)
(* U+0024 and U+005F classify as identifier_start whatever category their  *)
(* rows gave them, and a pass over a database in which U+0023 and U+0025   *)
(* have no rule returns the record {start 0x24, length 1,                  *)
(* identifier_start}.                                                      *)
(***************************************************************************)
IdentifierStartOverrides ==
    patched =>
        /\ classify(db, 36) = "identifier_start"
        /\ classify(db, 95) = "identifier_start"
        /\ (/\ pc \in { "done", "emitted" }
            /\ last >= 37
            /\ Verdict(35) = None
            /\ Verdict(37) = None)
               => OutputRow(36, 1, "identifier_start") \in Records

\* The database gives U+0024 its native Sc and has a row, without a rule, for
\* U+0023; the pass over the patched database has returned the record.
IdentifierStartWitness ==
    /\ patched
    /\ pc = "done"
    /\ 35 \in DOMAIN rows
    /\ rows[35] = "Po"
    /\ rows[36] = "Sc"
    /\ OutputRow(36, 1, "identifier_start") \in Records

(***************************************************************************)
(* C12.  Identifier-part overrides: once the override table is applied,    *)
(* U+200C and U+200D classify as identifier_part, and each lies inside a   *)
(* record of rule identifier_part of the list a pass over them returns.    *)
(***************************************************************************)
IdentifierPartOverrides ==
    patched =>
        \A cp \in { 8204, 8205 } :
            /\ classify(db, cp) = "identifier_part"
            /\ (pc \in { "done", "emitted" } /\ last >= 8205)
                   => \E r \in Records :
                          Covers(r, cp) /\ r.category = "identifier_part"

\* Both code points have their native Cf, which maps to no rule, and the
\* pass has returned one record for the two of them.
IdentifierPartWitness ==
    /\ patched
    /\ pc = "done"
    /\ rows[8204] = "Cf"
    /\ rows[8205] = "Cf"
    /\ rule_of_category(GENERAL_CATEGORY_ABBR_TO_ENUM["Cf"]) = None
    /\ OutputRow(8204, 2, "identifier_part") \in Records

(***************************************************************************)
(* C13.  Ordering: in every state of code_run_array, and in the list it    *)
(* returns, the records are in strictly ascending order of their starts.   *)
(***************************************************************************)
Ascending(es) ==
    \A i, j \in DOMAIN es : i < j => es[i].code_point < es[j].code_point

AscendingStarts == Ascending(code_runs) /\ Ascending(entries)

\* The pass is under way and has appended three records.
AscendingStartsWitness == pc = "loop" /\ Len(code_runs) >= 3

(***************************************************************************)
(* C14.  Fail fast on overflow: no step appends a record whose length      *)
(* exceeds 511 or is less than the run it stands for, and every step of    *)
(* code_run_array from a state whose open run is longer than 511 ends in   *)
(* an AssertionError without appending a record.                           *)
(***************************************************************************)
FailFastOnOverflow ==
    [][ /\ \A r \in Records' :
             /\ r.length <= 511
             /\ \A cp \in r.code_point .. r.code_point + r.length - 1 :
                    Verdict(cp) = r.category
             /\ Verdict(r.code_point + r.length) # r.category
        /\ (pc = "loop" /\ state.cat # None /\ state.length > 511)
               => /\ pc' = "failed"
                  /\ error' = "AssertionError"
                  /\ code_runs' = code_runs ]_vars

\* A pass has appended a record and then failed on a run of 512.
FailFastWitness ==
    /\ pc = "failed"
    /\ error = "AssertionError"
    /\ state.length = 512
    /\ code_runs # << >>

(***************************************************************************)
(* C15.  No partial success: a list that code_run_array returns is         *)
(* complete (every code point of the pass that has a rule lies in exactly  *)
(* one record, of that rule, no other code point lies in a record, and     *)
(* every field fits its width), what is printed is printed from such a     *)
(* list, in full, and a run that fails prints no record at all.            *)
(***************************************************************************)
Complete(es) ==
    /\ \A i \in DOMAIN es :
           /\ es[i].code_point \in 0 .. 1114111
           /\ es[i].length \in 1 .. 511
           /\ GrammarRule[es[i].category] \in 0 .. 3
    /\ \A cp \in 0 .. last :
           LET cov == { i \in DOMAIN es : Covers(es[i], cp) } IN
           IF Verdict(cp) = None THEN cov = {}
           ELSE /\ Cardinality(cov) = 1
                /\ \A i \in cov : es[i].category = Verdict(cp)

NoPartialSuccess ==
    /\ pc \in { "failed", "patch_failed" } => output = no_output
    /\ pc \in { "done", "emitted" } => Complete(entries)
    /\ output # no_output =>
           /\ pc = "emitted"
           /\ error = "none"
           /\ output.length = Len(entries)
           /\ output.kind = "cpp" =>
                  /\ Len(output.rows) = Len(entries)
                  /\ \A i \in DOMAIN entries :
                         /\ output.rows[i].code_point = entries[i].code_point
                         /\ output.rows[i].length = entries[i].length
                         /\ output.rows[i].name = entries[i].category

\* A pass has failed after it appended records, and nothing is printed.
NoPartialSuccessWitness ==
    /\ pc = "failed"
    /\ error = "AssertionError"
    /\ Len(code_runs) >= 1
    /\ entries = << >>
    /\ output = no_output

(***************************************************************************)
(* C16.  Input inconsistency fails fast: the overrides never count as      *)
(* applied to a database that lacks one of the override code points;       *)
(* applying them to such a database ends in KeyError, after which no step  *)
(* is taken: no list of records is built, returned or printed.             *)
(***************************************************************************)
OverrideCodePoints == { 9, 11, 12, 32, 36, 95, 160, 8204, 8205, 65279 }

MissingOverrideFailsFast ==
    [][ /\ patched' => OverrideCodePoints \subseteq DOMAIN db'
        /\ (/\ pc = "start"
            /\ pc' # "loop"
            /\ ~(OverrideCodePoints \subseteq DOMAIN db))
               => pc' = "patch_failed" /\ error' = "KeyError"
        /\ pc' = "patch_failed" =>
               code_runs' = << >> /\ entries' = << >> /\ output' = no_output
        /\ pc # "patch_failed" ]_vars

\* The overrides have failed on a database they had begun to rewrite.
MissingOverrideWitness ==
    /\ pc = "patch_failed"
    /\ error = "KeyError"
    /\ ~(OverrideCodePoints \subseteq DOMAIN db)
    /\ db # read_unicode_data(rows)

(***************************************************************************)
(* C17.  Idempotence: a second call of code_run_array on the database the  *)
(* first call was given returns the list the first call returned, and      *)
(* applying the overrides to a database they have been applied to leaves   *)
(* it as it is.                                                            *)
(***************************************************************************)
PipelineIdempotent ==
    /\ (pc \in { "done", "emitted" } /\ call = 2) => code_runs = entries
    /\ patched =>
           patch_special_code_points(db) = [ error |-> "none", db |-> db ]

\* The second call on a patched database has returned, with two records or
\* more.
PipelineIdempotentWitness ==
    /\ pc = "done"
    /\ call = 2
    /\ patched
    /\ db # read_unicode_data(rows)
    /\ Len(code_runs) >= 2

(***************************************************************************)
(* C18.  Sequencer: every call of code_run_array starts at code point 0,   *)
(* goes from each code point to the next one up, returns only when it is   *)
(* one past the last code point of the pass, and does end.                 *)
(***************************************************************************)
SequencerTerminates ==
    /\ [][ /\ (pc # "loop" /\ pc' = "loop") => code_point' = 0
           /\ (pc = "loop" /\ pc' = "loop") => code_point' = code_point + 1
           /\ (pc = "loop" /\ pc' = "done") =>
                  code_point = last + 1 /\ code_point' = code_point ]_vars
    /\ (pc = "loop") ~> (pc # "loop")

\* The second call has gone through every code point of the pass.
SequencerWitness ==
    /\ pc = "done"
    /\ call = 2
    /\ last = PatchLast
    /\ code_point = last + 1

(***************************************************************************)
(* C19.  Classifier purity, as the claim has it: the database holds for    *)
(* every code point what read_unicode_data gave it, the overrides          *)
(* included.                                                               *)
(***************************************************************************)
ClassifierPurity == db = read_unicode_data(rows)

(***************************************************************************)
(* C19, amended.  No step of code_run_array changes the database; a step   *)
(* that does change it (applying the override table rewrites, in place,    *)
(* the general category of override code points) leaves every other code   *)
(* point with the general category read_unicode_data gave it.              *)
(***************************************************************************)
OverridesRewriteInPlace ==
    [][ db' # db =>
            /\ pc # "loop"
            /\ DOMAIN db' = DOMAIN rows
            /\ \A cp \in DOMAIN db' :
                   /\ db'[cp].Name = code_point_value(cp, rows[cp]).Name
                   /\ cp \notin { 9, 11, 12, 32, 36, 95, 160, 8204, 8205,
                                  65279 }
                          => db'[cp] = code_point_value(cp, rows[cp]) ]_vars

\* A pass over a patched database has returned; the database has a row for
\* U+000A and differs from what was read.
OverridesRewriteWitness ==
    /\ pc = "done"
    /\ patched
    /\ 10 \in DOMAIN db
    /\ db[10] = read_unicode_data(rows)[10]
    /\ db[36] # read_unicode_data(rows)[36]

(***************************************************************************)
(* C20.  Terminal flush: when the code points are exhausted, an open run   *)
(* with a rule is appended, once, as the last record, and it ends at the   *)
(* last code point of the pass; an open run with no rule appends nothing.  *)
(***************************************************************************)
TerminalFlush ==
    [][ (pc = "loop" /\ code_point > last) =>
            IF state.cat # None /\ state.length > 0
            THEN /\ code_runs' = Append(code_runs,
                                        OutputRow(state.first, state.length,
                                                  state.cat))
                 /\ state.first + state.length - 1 = last
                 /\ pc' = "done"
            ELSE code_runs' = code_runs /\ pc' = "done" ]_vars

(***************************************************************************)
(* C23.  Run length cap: in every state of the run encoder the open run's  *)
(* length is at most 511, and no step takes an open run of length 511 to   *)
(* a longer one.                                                           *)
(***************************************************************************)
RunLengthCap ==
    [][ state'.length <= 511
        /\ (state.length = 511 => state'.length <= 511) ]_vars

(***************************************************************************)
(* C26.  max_run: in every state of code_run_array, max_run() is the       *)
(* length of the longest run met so far: the greatest of the lengths of    *)
(* the records appended and of the open run, runs of one code point        *)
(* included.                                                               *)
(***************************************************************************)
LongestRunSoFar ==
    LET lengths == { r.length : r \in Records }
                   \cup (IF state.cat # None THEN { state.length } ELSE {})
                   \cup { 0 }
    IN  CHOOSE n \in lengths : \A k \in lengths : k <= n

MaxRunIsLongest ==
    pc \in { "loop", "done", "failed" } =>
        state.max_length = LongestRunSoFar

(***************************************************************************)
(* C27.  Runs close only at a boundary: a step that processes code point   *)
(* cp and changes the list appends one record to it, and that record       *)
(* describes the run that ended at cp - 1 (its start + length is cp).      *)
(***************************************************************************)
RunsCloseAtBoundary ==
    [][ (pc = "loop" /\ code_point <= last /\ code_runs' # code_runs) =>
            /\ Len(code_runs') = Len(code_runs) + 1
            /\ SubSeq(code_runs', 1, Len(code_runs)) = code_runs
            /\ LET r == code_runs'[Len(code_runs')] IN
                   r.code_point + r.length = code_point ]_vars

\* The code point before this one closed a run of two code points or more,
\* and opened a run of its own.
RunsCloseWitness ==
    /\ pc = "loop"
    /\ code_runs # << >>
    /\ state.first = code_point - 1
    /\ state.cat # None
    /\ LET r == code_runs[Len(code_runs)] IN
           r.length >= 2 /\ r.code_point + r.length = code_point - 1

(***************************************************************************)
(* C28.  Append-only output: every step of code_run_array leaves its list  *)
(* as it is or appends one record at its end; no other step changes the    *)
(* list, except that a new call starts with a new, empty list; the list    *)
(* __main__ holds is never changed.                                        *)
(***************************************************************************)
AppendOnlyOutput ==
    [][ /\ pc = "loop" =>
               \/ code_runs' = code_runs
               \/ /\ Len(code_runs') = Len(code_runs) + 1
                  /\ SubSeq(code_runs', 1, Len(code_runs)) = code_runs
        /\ (pc # "loop" /\ pc' # "loop") => code_runs' = code_runs
        /\ (pc # "loop" /\ pc' = "loop") => code_runs' = << >>
        /\ pc # "loop" => entries' = entries ]_vars

\* The second call is under way with two records or more, and __main__
\* holds the list of the first.
AppendOnlyWitness ==
    /\ pc = "loop"
    /\ call = 2
    /\ Len(code_runs) >= 2
    /\ Len(entries) > Len(code_runs)

(***************************************************************************)
(* C29.  Override self-check: a step that rewrites the database has every  *)
(* category of the override table (Space_Separator, Other_Letter,          *)
(* Spacing_Mark) among the categories asserted, each with the rule meant   *)
(* for it (whitespace, identifier_start, identifier_part), and each        *)
(* resolving to that rule through CATEGORY_TO_GRAMMAR_RULE.                *)
(***************************************************************************)
IntendedRule(cat) ==
    CASE cat = "Space_Separator" -> "whitespace"
      [] cat = "Other_Letter" -> "identifier_start"
      [] cat = "Spacing_Mark" -> "identifier_part"
      [] OTHER -> "unintended"

OverrideSelfCheck ==
    [][ db' # db =>
            /\ patch_asserts
            /\ \A i \in DOMAIN special_code_points :
                   LET cat == special_code_points[i].cat IN
                   /\ << cat, IntendedRule(cat) >> \in patch_checks
                   /\ rule_of_category(cat) = IntendedRule(cat) ]_vars

\* The overrides have been applied: U+200C, Format in its row, holds
\* Spacing_Mark.
OverrideSelfCheckWitness ==
    /\ patched
    /\ 8204 \in DOMAIN rows
    /\ rows[8204] = "Cf"
    /\ db[8204].General_Category = "Spacing_Mark"
    /\ db[32].General_Category = "Space_Separator"
    /\ db[36].General_Category = "Other_Letter"

(***************************************************************************)
(* C21.  Record width: the three widths sum to at most 32 in               *)
(* src/cprun/parse.py and in src/parse.py, and the code point width is 21  *)
(* bits, in the one as in the other, so that a constructor call with the   *)
(* start 0x10FFFF passes the width assertion on the start.                 *)
(***************************************************************************)
RecordWidth ==
    /\ CODE_POINT_BITS + RUN_LENGTH_BITS + RULE_BITS <= 32
    /\ parse_py_CODE_POINT_BITS + parse_py_RUN_LENGTH_BITS
           + META_CATEGORY_BITS <= 32
    /\ CODE_POINT_BITS = 21
    /\ parse_py_CODE_POINT_BITS = 21
    /\ (/\ ret.op \in { "OutputRow", "parse_py_OutputRow" }
        /\ code_point = 1114111
        /\ state.length = 1)
           => error = "none"

(***************************************************************************)
(* C24.  Run Record validation, as the claim has it: a constructor call    *)
(* with a start outside 0..0x10FFFF or a length outside 1..511 fails.      *)
(***************************************************************************)
RecordValidationRejects ==
    [][ (/\ ret'.op = "OutputRow"
         /\ \/ code_point \notin 0 .. 1114111
            \/ state.length \notin 1 .. 511)
            => error' = "AssertionError" ]_vars

(***************************************************************************)
(* C24, amended.  A constructor call fails exactly when the start is       *)
(* 0x200000 or more or the length 512 or more (the values that do not fit  *)
(* 21 and 9 bits); end_run appends a record only for a start of at most    *)
(* 0x10FFFF and a length of 1..511.                                        *)
(***************************************************************************)
RecordValidationByWidth ==
    [][ /\ ret'.op = "OutputRow" =>
               (error' = "AssertionError"
                   <=> (code_point >= 2097152 \/ state.length >= 512))
        /\ (ret'.op = "end_run" /\ code_runs' # code_runs) =>
               /\ state.first <= 1114111
               /\ state.length \in 1 .. 511
               /\ code_runs' = << OutputRow(state.first, state.length,
                                            state.cat) >> ]_vars

\* The constructor has accepted the start 0x1FFFFF with the length 0.
RecordValidationWitness ==
    /\ ret.op = "OutputRow"
    /\ ret.value
    /\ code_point = 2097151
    /\ state.length = 0
    /\ error = "none"

(***************************************************************************)
(* C25.  Run Record validation accepts every valid start: end_run, in      *)
(* src/cprun/parse.py and in src/parse.py, on an open run with a rule, a   *)
(* start in 0..0x10FFFF and a length in 1..511, appends the record and     *)
(* does not fail.                                                          *)
(***************************************************************************)
ValidStartAccepted ==
    [][ (/\ ret'.op \in { "end_run", "parse_py_end_run" }
         /\ state.cat # None
         /\ state.first \in 0 .. 1114111
         /\ state.length \in 1 .. 511)
            => /\ error' = "none"
               /\ code_runs' = << OutputRow(state.first, state.length,
                                            state.cat) >> ]_vars

(***************************************************************************)
(* C30.  extend_run effect: a call of extend_run returns True with the     *)
(* length one more and start and rule as they were, or False with start,   *)
(* length and rule as they were; it returns False when the open run has    *)
(* no rule and when the rule offered is not the open run's.                *)
(***************************************************************************)
ExtendRunEffect ==
    [][ ret'.op \in { "extend_run", "parse_py_extend_run" } =>
            /\ state'.first = state.first
            /\ state'.cat = state.cat
            /\ state'.length = IF ret'.value THEN state.length + 1
                               ELSE state.length
            /\ (state.cat = None \/ mc # state.cat) => ~ret'.value ]_vars

\* extend_run has returned True on an open run of one code point.
ExtendRunWitness ==
    /\ ret.op = "extend_run"
    /\ ret.value
    /\ state.length = 2
    /\ state.cat = mc

(***************************************************************************)
(* C22.  System test runner verdict: test.py exits with EXIT_SUCCESS if    *)
(* pj-check returned 0 for every file with extension .json or .json5 and   *)
(* 1 for every file with extension .js or .txt, hidden files and files in  *)
(* hidden directories left aside, and with EXIT_FAILURE otherwise.         *)
(***************************************************************************)
Returned(f, code) == ~f.timeout /\ f.returncode = code

AllAsExpected ==
    \A i \in DOMAIN tests :
        LET f == tests[i] IN
        f.place = "plain" =>
            /\ f.ext \in { ".json", ".json5" } => Returned(f, 0)
            /\ f.ext \in { ".js", ".txt" } => Returned(f, 1)

RunnerVerdict ==
    pc = "exited" =>
        /\ status \in { 0, 1 }
        /\ status = 0 <=> AllAsExpected

\* The runner has succeeded on a directory with a .json5 file that parsed
\* and a hidden .js file that parsed too.
RunnerVerdictWitness ==
    /\ pc = "exited"
    /\ status = 0
    /\ Len(tests) = 2
    /\ tests[1].ext = ".json5"
    /\ tests[1].place = "plain"
    /\ tests[2].ext = ".js"
    /\ tests[2].place = "hidden_dir"
    /\ tests[2].returncode = 0

(***************************************************************************)
(* C31.  Header and source agree: whenever __main__ holds the list of a    *)
(* pass that returned, the array length emit_header declares for that list *)
(* equals the array length emit_source writes and the number of rows it    *)
(* writes; the header emit_header has written from its own pass over the  *)
(* same database declares that length too.                                 *)
(***************************************************************************)
HeaderSourceAgree ==
    /\ pc \in { "done", "emitted" } /\ call >= 1 =>
           LET h == emit_header(entries)
               c == emit_source(db, entries)
           IN  /\ c.error = "none"
               /\ h.length = c.output.length
               /\ h.length = Len(c.output.rows)
    /\ output.kind = "hpp" =>
           LET c == emit_source(db, entries).output IN
           /\ output.length = c.length
           /\ output.length = Len(c.rows)
    /\ output.kind = "cpp" /\ pc = "emitted" =>
           /\ output.length = emit_header(entries).length
           /\ Len(output.rows) = emit_header(entries).length

\* The header has been written for a patched database whose pass gave two
\* records or more.
HeaderSourceWitness ==
    /\ pc = "emitted"
    /\ patched
    /\ output.kind = "hpp"
    /\ output.length >= 2
    /\ Len(entries) = output.length

(***************************************************************************)
(* C32.  Open-run contiguity: while code_run_array is in its loop, with    *)
(* the code points below code_point processed, an open run with a rule     *)
(* ends at the last processed code point (first + length - 1 =             *)
(* code_point - 1) and every code point from its first on classifies to    *)
(* its rule; an open run without a rule has length 0.                      *)
(***************************************************************************)
OpenRunContiguity ==
    pc = "loop" =>
        IF state.cat # None
        THEN /\ code_point >= 1
             /\ state.first + state.length - 1 = code_point - 1
             /\ state.length >= 1
             /\ \A cp \in state.first .. code_point - 1 :
                    Verdict(cp) = state.cat
        ELSE state.length = 0

\* The open run has a rule, started after code point 0 and is three code
\* points long; an earlier run has been appended.
OpenRunWitness ==
    /\ pc = "loop"
    /\ state.cat # None
    /\ state.first >= 1
    /\ state.length = 3
    /\ Len(code_runs) >= 1

(***************************************************************************)
(* C33.  Override frame: a patch_special_code_points that returns changes  *)
(* only the General_Category of code points of the override table; every  *)
(* other entry and the Name of every entry are as before the call, and the *)
(* database has the same code points as before.                            *)
(***************************************************************************)
OverrideFrame ==
    [][ pc' # "patch_failed" /\ pc # "loop" =>
            /\ DOMAIN db' = DOMAIN db
            /\ \A cp \in DOMAIN db :
                   /\ db'[cp].Name = db[cp].Name
                   /\ DOMAIN db'[cp] = DOMAIN db[cp]
                   /\ cp \notin OverrideCodePoints => db'[cp] = db[cp] ]_vars

\* The overrides have been applied to a database whose row for U+005F had
\* category Pc and whose row for U+000D has the category it was read with.
OverrideFrameWitness ==
    /\ patched
    /\ pc = "start"
    /\ 95 \in DOMAIN db
    /\ rows[95] = "Pc"
    /\ db[95].General_Category = "Other_Letter"
    /\ db[95].Name = 95
    /\ 13 \in DOMAIN db
    /\ db[13] = code_point_value(13, rows[13])

(***************************************************************************)
(* C34.  Override atomicity, as stated: a patch_special_code_points that   *)
(* fails on a missing code point leaves the database as it was before the  *)
(* call.                                                                   *)
(***************************************************************************)
OverrideAtomicity ==
    [][ pc' = "patch_failed" => db' = db ]_vars

\* The override table in the order of the source: code point, category.
OverrideOrder ==
    << <<9, "Space_Separator">>, <<11, "Space_Separator">>,
       <<12, "Space_Separator">>, <<32, "Space_Separator">>,
       <<36, "Other_Letter">>, <<95, "Other_Letter">>,
       <<160, "Space_Separator">>, <<8204, "Spacing_Mark">>,
       <<8205, "Spacing_Mark">>, <<65279, "Space_Separator">> >>

\* The position in the table of the first code point d lacks.
FirstMissing(d) ==
    CHOOSE k \in DOMAIN OverrideOrder :
        /\ OverrideOrder[k][1] \notin DOMAIN d
        /\ \A j \in 1 .. k - 1 : OverrideOrder[j][1] \in DOMAIN d

(***************************************************************************)
(* C34, amended.  A patch_special_code_points that fails on a missing code *)
(* point has applied the overrides the table lists before that code point  *)
(* and no other: those entries have the category of the table, their Name  *)
(* and every other entry are as before the call, and no entry is added or  *)
(* removed.                                                                *)
(***************************************************************************)
OverridePrefixApplied ==
    [][ pc' = "patch_failed" =>
            /\ \E k \in DOMAIN OverrideOrder :
                   OverrideOrder[k][1] \notin DOMAIN db
            /\ DOMAIN db' = DOMAIN db
            /\ LET m == FirstMissing(db) IN
               /\ \A j \in 1 .. m - 1 :
                      db'[OverrideOrder[j][1]] =
                          [ db[OverrideOrder[j][1]]
                                EXCEPT !.General_Category =
                                           OverrideOrder[j][2] ]
               /\ \A cp \in DOMAIN db :
                      (\A j \in 1 .. m - 1 : OverrideOrder[j][1] # cp)
                          => db'[cp] = db[cp] ]_vars

\* The call has failed on U+005F: U+0009, listed before it, has the
\* category of the table and U+00A0, listed after it, the one it was read
\* with.
OverridePrefixWitness ==
    /\ pc = "patch_failed"
    /\ 95 \notin DOMAIN db
    /\ 9 \in DOMAIN db
    /\ rows[9] = "Cc"
    /\ db[9].General_Category = "Space_Separator"
    /\ 160 \in DOMAIN db
    /\ db[160] = code_point_value(160, rows[160])
    /\ db[160].General_Category # "Space_Separator"

(***************************************************************************)
(* C35.  Record starts are assigned code points: every record of the list  *)
(* under construction and of the list __main__ holds starts at a code      *)
(* point the database has an entry for, and emit_source writes a row for   *)
(* every record without a KeyError.                                        *)
(***************************************************************************)
RecordStartsAssigned ==
    /\ \A r \in Records : r.code_point \in DOMAIN db
    /\ \A i \in DOMAIN entries : entries[i].code_point \in DOMAIN db
    /\ call >= 1 => error # "KeyError"
    /\ output.kind = "cpp" =>
           /\ Len(output.rows) = Len(entries)
           /\ \A i \in DOMAIN entries :
                  output.rows[i] = as_str(entries[i], db)

\* The source has been written with two rows or more for a database that
\* lacks some code point of the pass.
RecordStartsWitness ==
    /\ pc = "emitted"
    /\ output.kind = "cpp"
    /\ Len(output.rows) >= 2
    /\ \E cp \in 0 .. last : cp \notin DOMAIN db

(***************************************************************************)
(* C36.  The encoder leaves its input alone: no step of code_run_array,    *)
(* its first, its last and the one that fails included, changes the        *)
(* database.                                                               *)
(***************************************************************************)
EncoderLeavesInput ==
    [][ pc = "loop" \/ pc' = "loop" => db' = db ]_vars

\* code_run_array has failed on an assertion after appending a record; the
\* database, never patched, is as it was read.
EncoderLeavesInputWitness ==
    /\ pc = "failed"
    /\ call = 1
    /\ error = "AssertionError"
    /\ ~patched
    /\ Len(code_runs) >= 1
    /\ db = read_unicode_data(rows)

====
